---- MODULE Spec2Model ----
(***************************************************************************)
(* Tile sampling of a MODIS swath (src/src/tile_extraction.py).            *)
(*                                                                         *)
(* A swath is a 3-d array (band, row, column).  Five functions cut tiles   *)
(* out of it: random_tile_extract_from_file, striding_tile_extract_from_   *)
(* file, extract_random_sample_where_clouds, extract_label_tiles and the   *)
(* orchestrating extract_labels_and_cloud_tiles.  Each call is one run of  *)
(* the state machine: the call draws its arguments, and ends in pc="done"  *)
(* with outcome "ok" (the function returned) or the name of the exception  *)
(* that left it.                                                           *)
(***************************************************************************)
EXTENDS Integers, Sequences, FiniteSets, TLC

VARIABLES
    pc,                       \* "idle", "random_loop" (inside the row loop), "done"
    fn,                       \* the function that was called
    swath,                    \* swath_array
    tile_size,
    stride,
    number_of_labels,
    vertical_pixel,           \* loop variable of random_tile_extract_from_file
    centre_of_tile_position,  \* the candidate grid (strided and cloud samplers)
    centres,                  \* the (row, column) centre of every tile cut so far
    payload,                  \* the list of tiles built so far
    metadata,                 \* the list of tile metadata built so far
    calls,                    \* functions invoked by extract_labels_and_cloud_tiles
    outcome,                  \* "none", "ok", "ValueError", "IndexError"
    ret                       \* the returned list (<<>> when nothing is returned)

vars == <<pc, fn, swath, tile_size, stride, number_of_labels, vertical_pixel,
          centre_of_tile_position, centres, payload, metadata, calls, outcome, ret>>

---------------------------------------------------------------------------
(* Bounds of the model *)

MaxTile == 3        \* tile_size ranges over 1..MaxTile
MaxStride == 2      \* stride ranges over 1..MaxStride (scaled on the full swath)
MaxLabels == 2      \* number_of_labels of a direct call ranges over 0..MaxLabels
MaxCloud == 2       \* at most this many pixels of a swath are cloudy
MaxLabelled == 2    \* at most this many pixels of a swath carry a label

---------------------------------------------------------------------------
(* Swaths *)

\* The only shape extract_labels_and_cloud_tiles accepts.
RequiredShape == <<27, 2030, 1350>>

TinyShape == <<3, 10, 10>>
ShapeA == <<10, 6, 10>>
ShapeB == <<10, 7, 13>>
ShapeC == <<10, 5, 11>>
ShapeD == <<10, 4, 10>>     \* too short for a tile of size 3 and its margins

Bands(sw) == sw.shape[1]
Length(sw) == sw.shape[2]
Breadth(sw) == sw.shape[3]

\* The value of swath_array[band, r, c], band counted from 0.  The layout is
\* the one the pipeline stacks: radiance and level-2 bands, then the cloud
\* mask (band -9), then the 8 label bands (bands -8 .. -1).  A swath is given
\* by its shape and by the sets of pixels whose cloud mask / label is set;
\* the other bands carry a value that identifies band and pixel.
Pixel(sw, band, r, c) ==
    IF band = Bands(sw) - 9
    THEN (IF <<r, c>> \in sw.cloud THEN 1 ELSE 0)
    ELSE IF band = Bands(sw) - 1
    THEN (IF <<r, c>> \in sw.label THEN 1 ELSE 0)
    ELSE IF band > Bands(sw) - 9
    THEN 0
    ELSE band + r * Breadth(sw) + c

\* The pixels of a swath of the given shape that may be cloudy or labelled:
\* grid positions of the samplers, an off-grid position, a top-row pixel, a
\* first-column pixel and the bottom right corner.
Probes(shape) ==
    { <<2, 2>>, <<2, (shape[3] \div 2) + 2>>, <<1, 1>>,
      <<0, 2>>, <<3, 0>>, <<shape[2] - 1, shape[3] - 1>> }

SubsetsUpTo(S, n) == { T \in SUBSET S : Cardinality(T) <= n }

Swaths(shapes, maxCloud, maxLabel) ==
    UNION { { [shape |-> s, cloud |-> c, label |-> l] :
                c \in SubsetsUpTo(Probes(s), maxCloud),
                l \in SubsetsUpTo(Probes(s), maxLabel) } : s \in shapes }

NoSwath == [shape |-> <<0, 0, 0>>, cloud |-> {}, label |-> {}]

TileSizes == 1..MaxTile

\* On the full-size swath the strides are scaled so that the grid stays small.
Strides(sw) ==
    IF sw.shape = RequiredShape THEN { 500 * k : k \in 1..MaxStride }
    ELSE 1..MaxStride

---------------------------------------------------------------------------
(* numpy and geometry helpers *)

\* offset = tile_size // 2
Offset(ts) == ts \div 2

\* offset_2 = offset, or offset + 1 when tile_size is even
Offset2(ts) == IF ts % 2 = 0 THEN Offset(ts) + 1 ELSE Offset(ts)

\* np.arange(start, stop, step), step > 0
RECURSIVE Arange(_, _, _)
Arange(start, stop, step) ==
    IF start >= stop THEN <<>>
    ELSE <<start>> \o Arange(start + step, stop, step)

\* A slice bound i on an axis of size n, as numpy normalises it: a negative
\* bound counts from the end, and the result is clipped to 0..n.
NormIndex(i, n) ==
    IF i < 0 THEN (IF i + n < 0 THEN 0 ELSE i + n)
    ELSE (IF i > n THEN n ELSE i)

\* The indices a[start:stop] selects on an axis of size n.
SliceIndices(start, stop, n) ==
    LET s == NormIndex(start, n)
        e == NormIndex(stop, n)
    IN  [k \in 1..(IF e > s THEN e - s ELSE 0) |-> s + k - 1]

\* swath_array[:, r0:r1, c0:c1] : an array with its shape and its values.
Slice(sw, r0, r1, c0, c1) ==
    LET rows == SliceIndices(r0, r1, Length(sw))
        cols == SliceIndices(c0, c1, Breadth(sw))
    IN  [shape |-> <<Bands(sw), Len(rows), Len(cols)>>,
         data  |-> [b \in 1..Bands(sw) |->
                      [i \in 1..Len(rows) |->
                         [j \in 1..Len(cols) |->
                            Pixel(sw, b - 1, rows[i], cols[j])]]]]

\* np.stack(payload): fails on an empty list and on arrays of unequal shape.
StackOutcome(p) ==
    IF Len(p) = 0 THEN "ValueError"
    ELSE IF \E i \in 1..Len(p) : p[i].shape # p[1].shape THEN "ValueError"
    ELSE "ok"

\* The nested loops "for vertical_pixel ... for horizontal_pixel ...: append".
RECURSIVE RowMajor(_, _)
RowMajor(vs, hs) ==
    IF vs = <<>> THEN <<>>
    ELSE [j \in 1..Len(hs) |-> <<Head(vs), hs[j]>>] \o RowMajor(Tail(vs), hs)

---------------------------------------------------------------------------
(* random_tile_extract_from_file *)

\* The two column ranges random.choice picks from; random.randint draws from
\* a range with both ends included.
RandomRanges(breadth, ts) ==
    { <<Offset(ts) + 1, (breadth \div 2) - (Offset(ts) + 1)>>,
      <<(breadth \div 2) + (Offset(ts) + 1), breadth - (Offset(ts) + 1)>> }

RandomTile(sw, v, h, ts) ==
    Slice(sw, v - Offset(ts), v + Offset2(ts) + 1,
              h - Offset(ts), h + Offset2(ts) + 1)

RandomMetadata(v, h, ts) ==
    << <<v - Offset(ts), v + Offset2(ts) + 1>>,
       <<h - Offset(ts), h + Offset2(ts) + 1>> >>

\* range((offset+1), swath_length-(offset+1)): the rows the loop visits.
RandomRows(length, ts) ==
    Arange(Offset(ts) + 1, length - (Offset(ts) + 1), 1)

\* The call up to the head of the loop.  The for statement binds
\* vertical_pixel to the first row, when there is one.
RandomBegin ==
    /\ pc = "idle"
    /\ \E sw \in Swaths({ShapeA, ShapeC}, 0, 0), ts \in TileSizes :
         /\ swath' = sw
         /\ tile_size' = ts
         /\ vertical_pixel' =
                IF RandomRows(sw.shape[2], ts) # <<>>
                THEN Head(RandomRows(sw.shape[2], ts))
                ELSE vertical_pixel
    /\ fn' = "random_tile_extract_from_file"
    /\ pc' = "random_loop"
    /\ UNCHANGED <<stride, number_of_labels, centre_of_tile_position, centres,
                   payload, metadata, calls, outcome, ret>>

\* One iteration of the loop over the rows: the body for the row
\* vertical_pixel, one tile appended per iteration, after which the for
\* statement binds vertical_pixel to the next row if one is left; after the
\* last row vertical_pixel keeps that row.  random.randint raises ValueError
\* on an empty range, which ends the call.
RandomStep ==
    /\ pc = "random_loop"
    /\ Len(payload) < Len(RandomRows(Length(swath), tile_size))
    /\ \E random_range \in RandomRanges(Breadth(swath), tile_size) :
         IF random_range[1] > random_range[2]
         THEN /\ outcome' = "ValueError"
              /\ pc' = "done"
              /\ UNCHANGED <<vertical_pixel, centres, payload, metadata>>
         ELSE \E random_horizontal_pixel \in random_range[1]..random_range[2] :
              /\ payload' = Append(payload, RandomTile(swath, vertical_pixel,
                                      random_horizontal_pixel, tile_size))
              /\ metadata' = Append(metadata, RandomMetadata(vertical_pixel,
                                      random_horizontal_pixel, tile_size))
              /\ centres' = Append(centres,
                                   <<vertical_pixel, random_horizontal_pixel>>)
              /\ vertical_pixel' =
                     IF Len(payload) + 1
                            < Len(RandomRows(Length(swath), tile_size))
                     THEN RandomRows(Length(swath), tile_size)[Len(payload) + 2]
                     ELSE vertical_pixel
              /\ UNCHANGED <<pc, outcome>>
    /\ UNCHANGED <<fn, swath, tile_size, stride, number_of_labels,
                   centre_of_tile_position, calls, ret>>

\* After the loop, when every row has been visited: np.stack(payload) and
\* the return.
RandomFinish ==
    /\ pc = "random_loop"
    /\ Len(payload) >= Len(RandomRows(Length(swath), tile_size))
    /\ outcome' = StackOutcome(payload)
    /\ ret' = IF StackOutcome(payload) = "ok" THEN <<payload, metadata>> ELSE <<>>
    /\ pc' = "done"
    /\ UNCHANGED <<fn, swath, tile_size, stride, number_of_labels, vertical_pixel,
                   centre_of_tile_position, centres, payload, metadata, calls>>

---------------------------------------------------------------------------
(* striding_tile_extract_from_file *)

StridingLowerBreadthRange(breadth, ts, st) ==
    Arange(Offset(ts) + 1, (breadth \div 2) - (Offset(ts) + 1), st)

\* (mutant) the right half starts one column nearer to the mid-line
StridingUpperBreadthRangeNear(breadth, ts, st) ==
    Arange((breadth \div 2) + Offset(ts), breadth - (Offset(ts) + 1), st)

StridingUpperBreadthRange(breadth, ts, st) ==
    Arange((breadth \div 2) + (Offset(ts) + 1), breadth - (Offset(ts) + 1), st)

StridingHorizontalPixels(breadth, ts, st) ==
    StridingLowerBreadthRange(breadth, ts, st)
        \o StridingUpperBreadthRange(breadth, ts, st)

StridingVerticalPixels(length, ts, st) ==
    Arange(Offset(ts) + 1, length - (Offset(ts) + 1), st)

StridingCentres(shape, ts, st) ==
    RowMajor(StridingVerticalPixels(shape[2], ts, st),
             StridingHorizontalPixels(shape[3], ts, st))

StridingTile(sw, co_ord, ts) ==
    LET vertical_pos == co_ord[1]
        horizontal_pos == co_ord[2]
    IN  Slice(sw, vertical_pos - Offset(ts), vertical_pos + Offset2(ts) + 1,
                  horizontal_pos - Offset(ts), horizontal_pos + Offset2(ts) + 1)

\* (mutant) the range ends recorded without the + 1
StridingMetadataShort(co_ord, ts) ==
    << <<co_ord[1] - Offset(ts), co_ord[1] + Offset2(ts)>>,
       <<co_ord[2] - Offset(ts), co_ord[2] + Offset2(ts)>> >>

StridingMetadata(co_ord, ts) ==
    LET vertical_pos == co_ord[1]
        horizontal_pos == co_ord[2]
    IN  << <<vertical_pos - Offset(ts), vertical_pos + Offset2(ts) + 1>>,
           <<horizontal_pos - Offset(ts), horizontal_pos + Offset2(ts) + 1>> >>

StridingTileExtractFromFile ==
    /\ pc = "idle"
    /\ \E sw \in Swaths({TinyShape, ShapeA, ShapeB, ShapeD, RequiredShape},
                        1, 0),
          ts \in TileSizes :
         \E st \in Strides(sw) :
           LET grid == StridingCentres(sw.shape, ts, st)
               tiles == [k \in 1..Len(grid) |-> StridingTile(sw, grid[k], ts)]
               metas == [k \in 1..Len(grid) |-> StridingMetadata(grid[k], ts)]
           IN  /\ swath' = sw
               /\ tile_size' = ts
               /\ stride' = st
               /\ centre_of_tile_position' = grid
               /\ centres' = grid
               /\ payload' = tiles
               /\ metadata' = metas
               /\ outcome' = StackOutcome(tiles)
               /\ ret' = IF StackOutcome(tiles) = "ok" THEN <<tiles, metas>>
                         ELSE <<>>
    /\ fn' = "striding_tile_extract_from_file"
    /\ pc' = "done"
    /\ UNCHANGED <<number_of_labels, vertical_pixel, calls>>

---------------------------------------------------------------------------
(* extract_random_sample_where_clouds *)

CloudLowerBreadthRange(breadth, ts, st) ==
    Arange(Offset(ts) + 1, (breadth \div 2) - (Offset2(ts) + 1), st)

CloudUpperBreadthRange(breadth, ts, st) ==
    Arange((breadth \div 2) + (Offset(ts) + 1), breadth - (Offset2(ts) + 1), st)

CloudHorizontalPixels(breadth, ts, st) ==
    CloudLowerBreadthRange(breadth, ts, st)
        \o CloudUpperBreadthRange(breadth, ts, st)

\* (mutant) offset_2 used for the first row centre as well
CloudVerticalPixelsHighStart(length, ts, st) ==
    Arange(Offset2(ts) + 1, length - (Offset2(ts) + 1), st)

CloudVerticalPixels(length, ts, st) ==
    Arange(Offset(ts) + 1, length - (Offset2(ts) + 1), st)

CloudCentres(shape, ts, st) ==
    RowMajor(CloudVerticalPixels(shape[2], ts, st),
             CloudHorizontalPixels(shape[3], ts, st))

\* mask = swath_array[-9, vertical_pixel, horizontal_pixel]
Mask(sw, coordinates) ==
    Pixel(sw, Bands(sw) - 9, coordinates[1], coordinates[2])

\* centre_of_tile_position[masks, :] with masks = np.array(masks, dtype=bool)
MaskedArray(sw, grid) ==
    SelectSeq(grid, LAMBDA coordinates : Mask(sw, coordinates) # 0)

\* Every order np.random.shuffle can leave the masked array in.
Shuffles(s) ==
    { [i \in 1..Len(s) |-> s[f[i]]] : f \in Permutations(1..Len(s)) }

\* (mutant) the slice taken one entry too long
ChosenOneTooMany(shuffled, n) ==
    SubSeq(shuffled, 1, IF n + 1 < Len(shuffled) THEN n + 1 ELSE Len(shuffled))

\* masked_array[:number_of_labels], number_of_labels >= 0
ChosenRandomTilePositions(shuffled, n) ==
    SubSeq(shuffled, 1, IF n < Len(shuffled) THEN n ELSE Len(shuffled))

CloudTile(sw, coord, ts) ==
    LET vertical_pos == coord[2]
        horizontal_pos == coord[1]
    IN  Slice(sw, horizontal_pos - Offset(ts), horizontal_pos + Offset2(ts) + 1,
                  vertical_pos - Offset(ts), vertical_pos + Offset2(ts) + 1)

CloudMetadata(coord, ts) ==
    LET vertical_pos == coord[2]
        horizontal_pos == coord[1]
    IN  << <<horizontal_pos - Offset(ts), horizontal_pos + Offset2(ts) + 1>>,
           <<vertical_pos - Offset(ts), vertical_pos + Offset2(ts) + 1>> >>

\* The call fails with IndexError before it shuffles when the swath has no
\* band -9 (fewer than 9 bands), and when the grid is empty: np.array([]) is
\* 1-dimensional and cannot be indexed by [masks, :].
CloudFailsEarly(sw, ts, st) ==
    \/ CloudCentres(sw.shape, ts, st) = <<>>
    \/ Bands(sw) < 9

Failed(exception) ==
    [outcome |-> exception, centres |-> <<>>, payload |-> <<>>, metadata |-> <<>>]

\* The call, given the order the shuffle left the masked array in.
ExtractRandomSampleWhereClouds(sw, n, ts, st, shuffled) ==
    IF CloudFailsEarly(sw, ts, st) THEN Failed("IndexError")
    ELSE LET chosen == ChosenRandomTilePositions(shuffled, n)
             tiles == [k \in 1..Len(chosen) |-> CloudTile(sw, chosen[k], ts)]
             metas == [k \in 1..Len(chosen) |-> CloudMetadata(chosen[k], ts)]
         IN  [outcome |-> StackOutcome(tiles), centres |-> chosen,
              payload |-> tiles, metadata |-> metas]

CloudShuffles(sw, ts, st) ==
    IF CloudFailsEarly(sw, ts, st) THEN { <<>> }
    ELSE Shuffles(MaskedArray(sw, CloudCentres(sw.shape, ts, st)))

ExtractRandomSampleWhereCloudsCall ==
    /\ pc = "idle"
    /\ \E sw \in Swaths({TinyShape, ShapeA, ShapeB, RequiredShape}, MaxCloud, 0),
          ts \in TileSizes, n \in 0..MaxLabels :
         \E st \in Strides(sw) :
           \E shuffled \in CloudShuffles(sw, ts, st) :
             LET r == ExtractRandomSampleWhereClouds(sw, n, ts, st, shuffled)
             IN  /\ swath' = sw
                 /\ tile_size' = ts
                 /\ stride' = st
                 /\ number_of_labels' = n
                 /\ centre_of_tile_position' =
                        IF Bands(sw) < 9 THEN <<>>
                        ELSE CloudCentres(sw.shape, ts, st)
                 /\ centres' = r.centres
                 /\ payload' = r.payload
                 /\ metadata' = r.metadata
                 /\ outcome' = r.outcome
                 /\ ret' = IF r.outcome = "ok" THEN <<r.payload, r.metadata>>
                           ELSE <<>>
    /\ fn' = "extract_random_sample_where_clouds"
    /\ pc' = "done"
    /\ UNCHANGED <<vertical_pixel, calls>>

---------------------------------------------------------------------------
(* extract_label_tiles *)

\* np.sum(swath_array[-8:], 0) at one pixel: the sum over the last 8 bands
\* (over all bands when there are fewer than 8).
RECURSIVE SumBands(_, _, _, _, _)
SumBands(sw, from, to, r, c) ==
    IF from > to THEN 0
    ELSE Pixel(sw, from, r, c) + SumBands(sw, from + 1, to, r, c)

LabelSum(sw, r, c) ==
    SumBands(sw, IF Bands(sw) > 8 THEN Bands(sw) - 8 ELSE 0, Bands(sw) - 1, r, c)

\* The first position of a non-empty set in the order np.where scans.
FirstRowMajor(S) ==
    CHOOSE p \in S : \A q \in S : p[1] < q[1] \/ (p[1] = q[1] /\ p[2] <= q[2])

RECURSIVE InScanOrder(_)
InScanOrder(S) ==
    IF S = {} THEN <<>>
    ELSE <<FirstRowMajor(S)>> \o InScanOrder(S \ {FirstRowMajor(S)})

\* np.where(np.logical_and(np.sum(swath_array[-8:], 0) > 0, swath_array[-9])):
\* the positions <<label_indexes[0][i], label_indexes[1][i]>>.  Every pixel
\* outside sw.cloud and sw.label is 0 in these bands.
LabelIndexes(sw) ==
    InScanOrder({ p \in sw.cloud \cup sw.label :
                    LabelSum(sw, p[1], p[2]) > 0 /\ Mask(sw, p) # 0 })

\* The two "continue" guards of the loop, on horizontal_pos = label_indexes[0].
LabelSkipped(sw, p, ts) ==
    \/ p[1] < Offset(ts)
    \/ p[1] > Length(sw) - Offset2(ts)

LabelTile(sw, p, ts) ==
    LET horizontal_pos == p[1]
        vertical_pos == p[2]
    IN  Slice(sw, horizontal_pos - Offset(ts), horizontal_pos + Offset2(ts) + 1,
                  vertical_pos - Offset(ts), vertical_pos + Offset2(ts) + 1)

\* (mutant) the column range recorded first
LabelMetadataSwapped(p, ts) ==
    << <<p[2] - Offset(ts), p[2] + Offset2(ts) + 1>>,
       <<p[1] - Offset(ts), p[1] + Offset2(ts) + 1>> >>

LabelMetadata(p, ts) ==
    LET horizontal_pos == p[1]
        vertical_pos == p[2]
    IN  << <<horizontal_pos - Offset(ts), horizontal_pos + Offset2(ts) + 1>>,
           <<vertical_pos - Offset(ts), vertical_pos + Offset2(ts) + 1>> >>

\* swath_array[-9] raises IndexError on a swath of fewer than 9 bands.
ExtractLabelTiles(sw, ts) ==
    IF Bands(sw) < 9 THEN Failed("IndexError")
    ELSE LET kept == SelectSeq(LabelIndexes(sw),
                               LAMBDA p : ~LabelSkipped(sw, p, ts))
             tiles == [k \in 1..Len(kept) |-> LabelTile(sw, kept[k], ts)]
             metas == [k \in 1..Len(kept) |-> LabelMetadata(kept[k], ts)]
         IN  [outcome |-> StackOutcome(tiles), centres |-> kept,
              payload |-> tiles, metadata |-> metas]

ExtractLabelTilesCall ==
    /\ pc = "idle"
    /\ \E sw \in Swaths({ShapeB, RequiredShape}, MaxLabelled, MaxLabelled)
                   \cup Swaths({TinyShape}, 0, 1),
          ts \in TileSizes :
         LET r == ExtractLabelTiles(sw, ts)
         IN  /\ swath' = sw
             /\ tile_size' = ts
             /\ centres' = r.centres
             /\ payload' = r.payload
             /\ metadata' = r.metadata
             /\ outcome' = r.outcome
             /\ ret' = IF r.outcome = "ok" THEN <<r.payload, r.metadata>>
                       ELSE <<>>
    /\ fn' = "extract_label_tiles"
    /\ pc' = "done"
    /\ UNCHANGED <<stride, number_of_labels, vertical_pixel,
                   centre_of_tile_position, calls>>

---------------------------------------------------------------------------
(* extract_labels_and_cloud_tiles *)

\* (mutant) only the number of axes is checked
ShapeAcceptedRank(shape) == Len(shape) = 3

\* The guard "swath_array.shape != (27, 2030, 1350)" negated.
ShapeAccepted(shape) == shape = RequiredShape

ExtractLabelsAndCloudTiles ==
    /\ pc = "idle"
    /\ \E sw \in Swaths({RequiredShape}, MaxCloud, MaxLabelled)
                   \cup Swaths({TinyShape, ShapeA, <<27, 1350, 2030>>}, 1, 1),
          ts \in TileSizes :
         \E st \in Strides(sw) :
           /\ swath' = sw
           /\ tile_size' = ts
           /\ stride' = st
           /\ IF ~ShapeAccepted(sw.shape)
              THEN /\ outcome' = "ValueError"
                   /\ calls' = <<>>
                   /\ ret' = <<>>
                   /\ UNCHANGED number_of_labels
              ELSE LET lab == ExtractLabelTiles(sw, ts)
                   IN  IF lab.outcome # "ok"
                       THEN /\ outcome' = lab.outcome
                            /\ calls' = <<"extract_label_tiles">>
                            /\ ret' = <<>>
                            /\ UNCHANGED number_of_labels
                       ELSE \E shuffled \in CloudShuffles(sw, ts, st) :
                              LET n == Len(lab.payload)
                                  unl == ExtractRandomSampleWhereClouds(
                                             sw, n, ts, st, shuffled)
                              IN  /\ number_of_labels' = n
                                  /\ calls' = <<"extract_label_tiles",
                                        "extract_random_sample_where_clouds">>
                                  /\ outcome' = unl.outcome
                                  /\ ret' = IF unl.outcome = "ok"
                                            THEN <<lab.payload, unl.payload,
                                                   lab.metadata, unl.metadata>>
                                            ELSE <<>>
    /\ fn' = "extract_labels_and_cloud_tiles"
    /\ pc' = "done"
    /\ UNCHANGED <<vertical_pixel, centre_of_tile_position, centres,
                   payload, metadata>>

---------------------------------------------------------------------------

Init ==
    /\ pc = "idle"
    /\ fn = "none"
    /\ swath = NoSwath
    /\ tile_size = 3
    /\ stride = 3
    /\ number_of_labels = 0
    /\ vertical_pixel = 0
    /\ centre_of_tile_position = <<>>
    /\ centres = <<>>
    /\ payload = <<>>
    /\ metadata = <<>>
    /\ calls = <<>>
    /\ outcome = "none"
    /\ ret = <<>>

Next ==
    \/ RandomBegin
    \/ RandomStep
    \/ RandomFinish
    \/ StridingTileExtractFromFile
    \/ ExtractRandomSampleWhereCloudsCall
    \/ ExtractLabelTilesCall
    \/ ExtractLabelsAndCloudTiles

Spec == Init /\ [][Next]_vars

---------------------------------------------------------------------------
(* Properties *)

Balanced == fn = "extract_labels_and_cloud_tiles"
Clouds == fn = "extract_random_sample_where_clouds"
Labels == fn = "extract_label_tiles"
Striding == fn = "striding_tile_extract_from_file"
Random == fn = "random_tile_extract_from_file"

\* The (tile stack, metadata list) pairs of the returned list.
ReturnedPairs ==
    IF ret = <<>> THEN {}
    ELSE IF Len(ret) = 2 THEN { <<ret[1], ret[2]>> }
    ELSE { <<ret[1], ret[3]>>, <<ret[2], ret[4]>> }

\* The number of grid candidates whose mask is set.
CloudyCandidates ==
    Cardinality({ i \in 1..Len(centre_of_tile_position) :
                    centre_of_tile_position[i] \in swath.cloud })

\* C1: for a swath whose shape is not (27, 2030, 1350) the call of
\* extract_labels_and_cloud_tiles ends in ValueError before extract_label_tiles
\* or extract_random_sample_where_clouds is invoked, and returns nothing.
C1_ShapeViolation ==
    (Balanced /\ pc = "done" /\ swath.shape # <<27, 2030, 1350>>)
        => /\ outcome = "ValueError"
           /\ calls = <<>>
           /\ ret = <<>>

C1_Witness ==
    /\ Balanced /\ pc = "done"
    /\ swath.shape = <<3, 10, 10>>
    /\ outcome = "ValueError"

\* C2 (as claimed): for every swath of the required shape the call returns four
\* outputs with len(positive_tiles) = len(positive_metadata) = k, the number of
\* positive tiles of extract_label_tiles, len(negative_tiles) =
\* len(negative_metadata) <= k, and equality when at least k grid candidates
\* are cloudy.
C2_BalancedLengths ==
    (Balanced /\ pc = "done" /\ swath.shape = <<27, 2030, 1350>>)
        => LET k == Len(ExtractLabelTiles(swath, tile_size).centres)
               c == Len(MaskedArray(swath,
                          CloudCentres(swath.shape, tile_size, stride)))
           IN  /\ outcome = "ok"
               /\ Len(ret) = 4
               /\ Len(ret[1]) = k
               /\ Len(ret[3]) = k
               /\ Len(ret[2]) = Len(ret[4])
               /\ Len(ret[2]) <= k
               /\ (c >= k => Len(ret[2]) = k)

\* C3: extract_random_sample_where_clouds never returns more than
\* number_of_labels tiles, and every returned tile is centred on a position
\* whose value in band -9 is truthy.
C3_CloudSample ==
    (Clouds /\ pc = "done" /\ outcome = "ok")
        => /\ Len(ret[1]) <= number_of_labels
           /\ \A i \in 1..Len(ret[1]) :
                LET low == tile_size \div 2
                    row == ret[2][i][1][1] + low
                    col == ret[2][i][2][1] + low
                IN  /\ <<row, col>> \in swath.cloud
                    /\ centres[i] = <<row, col>>
                    /\ ret[1][i].data[Bands(swath) - 8][low + 1][low + 1] # 0

C3_Witness ==
    /\ Clouds /\ pc = "done" /\ outcome = "ok"
    /\ number_of_labels = 1
    /\ CloudyCandidates = 2
    /\ Len(ret[1]) = 1

\* C4 (as claimed): when the number c of cloudy grid candidates is smaller than
\* number_of_labels, c = 0 included, extract_random_sample_where_clouds
\* returns normally with exactly c tiles and c metadata entries.
C4_ShortfallReturns ==
    (Clouds /\ pc = "done" /\ Bands(swath) >= 9
        /\ CloudyCandidates < number_of_labels)
        => /\ outcome = "ok"
           /\ Len(ret[1]) = CloudyCandidates
           /\ Len(ret[2]) = CloudyCandidates

\* The ends of the exclusion band of the swath, for the tile size of the call.
BandLow == (Breadth(swath) \div 2) - (tile_size \div 2) - 1
BandHigh == (Breadth(swath) \div 2) + (tile_size \div 2) + 1

\* C5 (as claimed): no tile centre column of the uniform or the strided
\* sampler lies in the closed band [breadth//2 - offset_low - 1,
\* breadth//2 + offset_low + 1].
C5_ClosedBand ==
    (Random \/ Striding)
        => \A i \in 1..Len(centres) :
             ~(BandLow <= centres[i][2] /\ centres[i][2] <= BandHigh)

\* C5 (amended): no tile centre column of the uniform or the strided sampler
\* lies strictly between the two ends of the band; the strided sampler also
\* never uses the lower end.
C5_OpenBand ==
    (Random \/ Striding)
        => \A i \in 1..Len(centres) :
             /\ ~(BandLow < centres[i][2] /\ centres[i][2] < BandHigh)
             /\ (Striding => centres[i][2] # BandLow)

C5_Witness ==
    /\ Striding /\ pc = "done" /\ outcome = "ok"
    /\ \E i \in 1..Len(centres) : centres[i][2] = BandHigh

\* C6: slicing the swath over all bands at metadata[i], first range on the row
\* axis and second on the column axis, yields exactly tile i, for every tile
\* returned by any sampler.
C6_RoundTrip ==
    \A pair \in ReturnedPairs :
      \A i \in 1..Len(pair[1]) :
        LET md == pair[2][i]
        IN  Slice(swath, md[1][1], md[1][2], md[2][1], md[2][2]) = pair[1][i]

C6_Witness ==
    /\ Labels /\ pc = "done" /\ outcome = "ok"
    /\ Len(ret[1]) = 2
    /\ ret[2][1][1] # ret[2][1][2]

\* The width offset_low + offset_high + 1 of a metadata range, from the tile size.
RangeWidth(ts) ==
    IF ts % 2 = 1 THEN 2 * (ts \div 2) + 1 ELSE 2 * (ts \div 2) + 2

\* C7: whenever a sampler returns, tile stack and metadata list have the same
\* length, entry i of the metadata is the window of the i-th tile centre, and
\* every range has width offset_low + offset_high + 1 on both axes.
C7_ParallelLists ==
    /\ Len(payload) = Len(metadata)
    /\ \A pair \in ReturnedPairs :
         /\ Len(pair[1]) = Len(pair[2])
         /\ \A i \in 1..Len(pair[2]) :
              /\ pair[2][i][1][2] - pair[2][i][1][1] = RangeWidth(tile_size)
              /\ pair[2][i][2][2] - pair[2][i][2][1] = RangeWidth(tile_size)
    /\ (outcome = "ok" /\ ~Balanced)
         => /\ Len(centres) = Len(ret[2])
            /\ \A i \in 1..Len(ret[2]) :
                 /\ ret[2][i][1][1] = centres[i][1] - (tile_size \div 2)
                 /\ ret[2][i][2][1] = centres[i][2] - (tile_size \div 2)

C7_Witness ==
    /\ Striding /\ pc = "done" /\ outcome = "ok"
    /\ tile_size = 2
    /\ Len(ret[1]) >= 2

\* The length of arange(start, stop, step).
ArangeLen(start, stop, step) ==
    IF stop <= start THEN 0 ELSE (stop - start + step - 1) \div step

\* C8 (as claimed): striding_tile_extract_from_file returns exactly
\* len(row_centers) * len(col_centers) tiles, and tile number
\* r * len(col_centers) + c is the one centred on (row_centers[r],
\* col_centers[c]): the result is a function of the array, tile_size and
\* stride alone.
C8_StridedGrid ==
    (Striding /\ pc = "done")
        => LET low == tile_size \div 2
               half == Breadth(swath) \div 2
               nr == ArangeLen(low + 1, Length(swath) - low - 1, stride)
               nlo == ArangeLen(low + 1, half - low - 1, stride)
               nhi == ArangeLen(half + low + 1, Breadth(swath) - low - 1, stride)
               nc == nlo + nhi
               row(r) == low + 1 + r * stride
               col(c) == IF c < nlo THEN low + 1 + c * stride
                         ELSE half + low + 1 + (c - nlo) * stride
           IN  /\ outcome = "ok"
               /\ ret = <<payload, metadata>>
               /\ Len(payload) = nr * nc
               /\ Len(metadata) = nr * nc
               /\ \A r \in 0..(nr - 1), c \in 0..(nc - 1) :
                    LET k == r * nc + c + 1
                    IN  /\ centres[k] = <<row(r), col(c)>>
                        /\ metadata[k] =
                             << <<row(r) - low, row(r) - low + RangeWidth(tile_size)>>,
                                <<col(c) - low, col(c) - low + RangeWidth(tile_size)>> >>
                        /\ payload[k] =
                             Slice(swath, row(r) - low,
                                   row(r) - low + RangeWidth(tile_size),
                                   col(c) - low,
                                   col(c) - low + RangeWidth(tile_size))

\* The positions extract_label_tiles is claimed to keep, in scan order.
QualifyingPositions ==
    InScanOrder({ p \in swath.cloud \cup swath.label :
                    /\ p \in swath.label
                    /\ p \in swath.cloud
                    /\ p[1] >= tile_size \div 2
                    /\ p[1] <= Length(swath) - (RangeWidth(tile_size)
                                                  - (tile_size \div 2) - 1) })

\* C9 (as claimed): extract_label_tiles returns exactly one tile, in row-major
\* scan order, for each position with a positive label sum and a truthy mask
\* whose row is clear of the two row boundaries, and returns normally with an
\* empty collection when there is none.
C9_LabelTiles ==
    (Labels /\ pc = "done" /\ Bands(swath) >= 9)
        => /\ outcome = "ok"
           /\ Len(ret[1]) = Len(QualifyingPositions)
           /\ Len(ret[2]) = Len(QualifyingPositions)
           /\ \A i \in 1..Len(ret[2]) :
                /\ ret[2][i][1][1] = QualifyingPositions[i][1] - (tile_size \div 2)
                /\ ret[2][i][2][1] = QualifyingPositions[i][2] - (tile_size \div 2)

\* The strided grid restricted to the centres the cloud sampler keeps: rows
\* below length - offset_high - 1, columns below breadth//2 - offset_high - 1
\* in the left half and below breadth - offset_high - 1 in the right half.
StridedGridUpToHighOffset ==
    LET high == RangeWidth(tile_size) - (tile_size \div 2) - 1
        half == Breadth(swath) \div 2
    IN  SelectSeq(StridingCentres(swath.shape, tile_size, stride),
                  LAMBDA p : /\ p[1] < Length(swath) - (high + 1)
                             /\ p[2] < Breadth(swath) - (high + 1)
                             /\ (p[2] < half => p[2] < half - (high + 1)))

\* C10 (as claimed): the candidate grid extract_random_sample_where_clouds
\* filters by the mask is the grid striding_tile_extract_from_file enumerates
\* for the same inputs, in the same order.  Stated for the calls whose grid
\* is not empty.
C10_SameGrid ==
    (Clouds /\ pc = "done" /\ centre_of_tile_position # <<>>)
        => centre_of_tile_position =
               StridingCentres(swath.shape, tile_size, stride)

\* C10 (amended): for odd tile_size the two grids are the same sequence; for
\* even tile_size the cloud sampler's grid is the strided grid without the
\* centres at or beyond the stops lowered by one (offset_high in place of
\* offset_low), in the same order.
C10_GridUpToHighOffset ==
    (Clouds /\ pc = "done" /\ Bands(swath) >= 9)
        => /\ centre_of_tile_position = StridedGridUpToHighOffset
           /\ (tile_size % 2 = 1 =>
                 centre_of_tile_position =
                     StridingCentres(swath.shape, tile_size, stride))

C10_Witness ==
    /\ Clouds /\ pc = "done" /\ Bands(swath) >= 9
    /\ tile_size % 2 = 0
    /\ centre_of_tile_position # <<>>
    /\ centre_of_tile_position # StridingCentres(swath.shape, tile_size, stride)

\* A recorded range pair lies inside the swath.
WindowInside(md) ==
    /\ 0 <= md[1][1] /\ md[1][1] < md[1][2] /\ md[1][2] <= Length(swath)
    /\ 0 <= md[2][1] /\ md[2][1] < md[2][2] /\ md[2][2] <= Breadth(swath)

\* A tile has the full height and width offset_low + offset_high + 1.
FullTile(tile) ==
    tile.shape = <<Bands(swath), RangeWidth(tile_size), RangeWidth(tile_size)>>

\* C11 (as claimed): every window chosen by any of the four samplers lies
\* inside the swath, 0 <= row_start < row_end <= length and 0 <= col_start <
\* col_end <= breadth, for odd and even tile_size, so every sliced tile has
\* the full height and width and the tiles of one call can be stacked.
C11_WindowsInside ==
    /\ \A i \in 1..Len(metadata) :
         WindowInside(metadata[i]) /\ FullTile(payload[i])
    /\ \A pair \in ReturnedPairs :
         \A i \in 1..Len(pair[2]) :
           WindowInside(pair[2][i]) /\ FullTile(pair[1][i])
    /\ (pc = "done" /\ Len(payload) > 0 /\ ~Balanced) => outcome = "ok"

====
